---- MODULE Spec2Model ----
(***************************************************************************)
(* Mail-to-Telegram bot: the poll scheduler (MailBot), the IMAP session    *)
(* lifecycle (MailService) and the delivery of one message with its        *)
(* attachments (TelegramService.sendEmail).                                *)
(*                                                                         *)
(* Every await of the JavaScript code is one position of a process; the    *)
(* action that leaves the position is the resolution (or rejection) of the *)
(* awaited promise together with all the synchronous code that follows it  *)
(* up to the next await.                                                   *)
(***************************************************************************)
EXTENDS Integers, Sequences, FiniteSets

(* ---------------------------- bounds ----------------------------------- *)
NumMsgs == 2          \* messages held by the simulated store
MaxStreak == 5        \* saturation of the observer's failure-streak counter
MaxErrors == 7        \* largest failure count fed to getNextPollInterval

(* ------------------------ program constants ---------------------------- *)
defaultPollInterval == 60000
maxAttachmentSize == 52428800
maxInterval == 10 * 60 * 1000
maxMultiplier == 10

Msgs == 1..NumMsgs

BaseSet == {1000, 30000, 59999, 60000, 60001, 120000, 600000, 700000}

(* ------------------------------ state ---------------------------------- *)
VARIABLES
    pollInterval,       \* config.pollInterval
    isRunning,          \* MailBot.isRunning
    pollTimeout,        \* MailBot.pollTimeout: "null", "pending" or "fired"
    pollDelay,          \* the interval the pending timer was armed with
    consecutiveErrors,  \* MailBot.consecutiveErrors
    startPc,            \* position of main / MailBot.start
    stopPc,             \* position of the shutdown handler / MailBot.stop
    inFlight,           \* checkEmails invocations that have not returned
    pc,                 \* position of the checkEmails invocation
    seen,               \* the store: \Seen flag of each message
    sessions,           \* store sessions that are open
    unreadSeqNos,       \* fetchUnreadEmails: result of searchUnread
    idx,                \* fetchUnreadEmails: position in unreadSeqNos
    emails,             \* fetchUnreadEmails: uids of the fetched emails
    eidx,               \* checkEmails: position in emails
    aidx,               \* sendEmail: position in email.attachments
    cfg,                \* the required settings that are present
    fatal,              \* main: the fatal error, "none" when there is none
    endPending,         \* this.imap has not emitted 'end' and will, on end()
    box,                \* the store: which uids are in the mailbox
    obs                 \* observer: history of the current cycle

(* --------------------------- pure helpers ------------------------------ *)
Min(a, b) == IF a <= b THEN a ELSE b

RECURSIVE Pow2(_)
Pow2(k) == IF k <= 0 THEN 1 ELSE 2 * Pow2(k - 1)

\* MailBot.getNextPollInterval: the multiplier is capped at 10 before the
\* product is capped at ten minutes.
getNextPollInterval(base, n) ==
    IF n = 0
    THEN base
    ELSE Min(base * Min(Pow2(n - 1), maxMultiplier), maxInterval)

\* The messages of the store and their attachments (size, content present).
AttWithin == [size |-> maxAttachmentSize, content |-> TRUE]
AttOver == [size |-> maxAttachmentSize + 1, content |-> TRUE]
AttEmpty == [size |-> 0, content |-> FALSE]
AttEmptyOver == [size |-> maxAttachmentSize + 1, content |-> FALSE]

AttachmentsOf(m) ==
    CASE m % 3 = 1 -> <<AttWithin, AttOver, AttWithin>>
      [] m % 3 = 2 -> <<AttEmpty, AttWithin, AttEmptyOver>>
      [] OTHER -> << >>

RECURSIVE SortedSeq(_)
SortedSeq(S) ==
    IF S = {} THEN << >>
    ELSE LET lo == CHOOSE x \in S : \A y \in S : x <= y
         IN <<lo>> \o SortedSeq(S \ {lo})

Range(s) == {s[i] : i \in 1..Len(s)}

\* The messages in the mailbox, and the sequence number (position) of one.
Present == {m \in Msgs : box[m] = "present"}
SeqNoOf(m) == Cardinality({x \in Present : x <= m})

\* imap.search(['UNSEEN']): the uids of the unseen messages of the mailbox, in
\* ascending store order.
searchUnread(flags) == SortedSeq({m \in Present : ~flags[m]})

fetchTarget_BySeqNo(h) ==
    IF \E m \in Present : SeqNoOf(m) = h
    THEN CHOOSE m \in Present : SeqNoOf(m) = h
    ELSE 0

\* imap.fetch(h, ...): the message whose uid is h, 0 when there is none.
fetchTarget(h) == IF h \in Present THEN h ELSE 0

\* fetchEmail: emailUid starts as the value the fetch was addressed by and is
\* overwritten by attrs.uid when the attributes event arrives; it stamps the
\* email when the fetch ends.
stampUid(h, attrs, attrsUid) == IF attrs THEN attrsUid ELSE h

ackKey_SeqNo(email) == email.seqno

\* processEmail: markEmailAsRead(email.uid).
ackKey(email) == email.uid

pushEmail_Front(list, email) == <<email>> \o list

\* fetchUnreadEmails: emails.push(email).
pushEmail(list, email) == Append(list, email)

OnFetchError_Abort == "disconnect"

\* fetchUnreadEmails, inner catch: a failed fetch is logged and the loop goes
\* on to the pause and the next listed item.
OnFetchError == "fetchDelay"

addFlags_NoEffect(flags, uid) == flags

\* imap.addFlags(uid, ['\\Seen']) on success.
addFlags(flags, uid) == [flags EXCEPT ![uid] = TRUE]

\* TelegramService.sendEmail, the attachment loop from attachment k up to its
\* next await: oversize first, then missing content (continue, no await),
\* else the document is sent; past the last attachment sendEmail returns
\* true and processEmail goes on to markEmailAsRead.
RECURSIVE NextAtt_SizeGe(_, _)
NextAtt_SizeGe(m, k) ==
    LET atts == AttachmentsOf(m) IN
    IF k > Len(atts) THEN [pc |-> "ackConnect", aidx |-> 0]
    ELSE IF atts[k].size >= maxAttachmentSize
         THEN [pc |-> "sendOversizeWarn", aidx |-> k]
    ELSE IF ~atts[k].content THEN NextAtt_SizeGe(m, k + 1)
    ELSE [pc |-> "sendDocument", aidx |-> k]

RECURSIVE NextAtt(_, _)
NextAtt(m, k) ==
    LET atts == AttachmentsOf(m) IN
    IF k > Len(atts) THEN [pc |-> "ackConnect", aidx |-> 0]
    ELSE IF atts[k].size > maxAttachmentSize
         THEN [pc |-> "sendOversizeWarn", aidx |-> k]
    ELSE IF ~atts[k].content THEN NextAtt(m, k + 1)
    ELSE [pc |-> "sendDocument", aidx |-> k]

OnSendError_AckAnyway == "ackConnect"

\* MailBot.processEmail, catch: a sendEmail that throws skips markEmailAsRead.
OnSendError == "itemDelay"

OnAckError_NoDisconnect == "itemDelay"

\* MailService.markEmailAsRead, finally: a failed step still disconnects.
OnAckError == "ackDisconnect"

errorsAfterSession_CountItems(errs, failCount) ==
    IF failCount > 0 THEN errs + 1 ELSE 0

\* MailBot.checkEmails, try branch: the counter is reset whatever failCount is.
errorsAfterSession(errs, failCount) == 0

startAwaitsCycle_Not == FALSE

\* MailBot.start awaits the initial checkEmails before scheduleNextPoll.
startAwaitsCycle == TRUE

\* validateConfig: the required settings, in the order they are checked.
Required == <<"TELEGRAM_BOT_TOKEN", "TELEGRAM_CHAT_ID", "IMAP_HOST",
              "IMAP_USER", "IMAP_PASSWORD">>

RequiredSet == {Required[i] : i \in 1..Len(Required)}

RECURSIVE Filter(_, _)
Filter(names, present) ==
    IF names = << >> THEN << >>
    ELSE IF names[1] \in present THEN Filter(Tail(names), present)
    ELSE <<names[1]>> \o Filter(Tail(names), present)

missing_FirstOnly(present) ==
    IF Filter(Required, present) = << >> THEN << >>
    ELSE <<Filter(Required, present)[1]>>

\* validateConfig: the names of the required settings that have no value.
missing(present) == Filter(Required, present)

vars == <<pollInterval, isRunning, pollTimeout, pollDelay, consecutiveErrors,
          startPc, stopPc, inFlight, pc, seen, sessions, unreadSeqNos, idx,
          emails, eidx, aidx, cfg, fatal, endPending, box, obs>>

confVars == <<pollInterval, cfg>>
store == <<seen, box>>
conn == <<sessions, endPending>>

cycleVars == <<pc, store, conn, unreadSeqNos, idx, emails, eidx, aidx>>

\* The observer record at the start of a cycle; streak, prevSendFailed,
\* ackedOk and afterStop are carried from cycle to cycle.
NewObs(o, stopped) ==
    [ session |-> "pending",        \* listing session: pending / ok / failed
      errorsBefore |-> consecutiveErrors,
      streak |-> o.streak,          \* consecutive session-level failures
      outcome |-> [m \in Msgs |-> "none"],
      mainOk |-> {},                \* primary text notification sent
      ackInvoked |-> {},            \* markEmailAsRead invoked
      prevSendFailed |-> {m \in Msgs : o.outcome[m] = "sendFailed"},
      ackedOk |-> o.ackedOk,        \* delivered and acknowledged, ever
      listOpens |-> 1, listCloses |-> 0, ackOpens |-> 0, ackCloses |-> 0,
      afterStop |-> o.afterStop \/ stopped,
      channel |-> o.channel,        \* a channel call has been made
      fetched |-> << >>,            \* values fetchEmail was called with
      started |-> << >>,            \* messages sendEmail was called with
      log |-> << >> ]               \* attachment calls of the last sendEmail

InitObs ==
    [ session |-> "none", errorsBefore |-> 0, streak |-> 0,
      outcome |-> [m \in Msgs |-> "none"], mainOk |-> {}, ackInvoked |-> {},
      prevSendFailed |-> {}, ackedOk |-> {},
      listOpens |-> 0, listCloses |-> 0, ackOpens |-> 0, ackCloses |-> 0,
      afterStop |-> FALSE, channel |-> FALSE,
      fetched |-> << >>, started |-> << >>, log |-> << >> ]

InitCommon ==
    /\ pollTimeout = "null"
    /\ pollDelay = 0
    /\ stopPc = "idle"
    /\ inFlight = 0
    /\ pc = "idle"
    /\ seen = [m \in Msgs |-> FALSE]
    /\ sessions = 0
    /\ unreadSeqNos = << >>
    /\ idx = 0
    /\ emails = << >>
    /\ eidx = 0
    /\ aidx = 0
    /\ fatal = [kind |-> "none", missing |-> << >>]
    /\ endPending = FALSE
    /\ obs = InitObs

\* main is about to call validateConfig, with any subset of the required
\* settings present in the environment.
Init ==
    /\ InitCommon
    /\ box = [m \in Msgs |-> "present"]
    /\ pollInterval = defaultPollInterval
    /\ cfg \in SUBSET RequiredSet
    /\ consecutiveErrors = 0
    /\ isRunning = FALSE
    /\ startPc = "validate"

Alive == stopPc # "exited" /\ startPc # "failed"


(* --------------------------- scheduler --------------------------------- *)
\* MailBot.scheduleNextPoll, called with the counter value errs.
scheduleNextPoll(running, errs) ==
    IF running
    THEN /\ pollTimeout' = "pending"
         /\ pollDelay' = getNextPollInterval(pollInterval, errs)
    ELSE UNCHANGED <<pollTimeout, pollDelay>>

\* checkEmails is entered and runs up to the await of connect() in
\* fetchUnreadEmails.
BeginCycle ==
    /\ inFlight' = inFlight + 1
    /\ IF inFlight = 0
       THEN /\ pc' = "connect"
            /\ unreadSeqNos' = << >>
            /\ idx' = 0
            /\ emails' = << >>
            /\ eidx' = 0
            /\ aidx' = 0
            /\ obs' = NewObs(obs, stopPc # "idle")
       ELSE UNCHANGED <<pc, unreadSeqNos, idx, emails, eidx, aidx, obs>>
    /\ UNCHANGED <<store, conn>>

failCount == Cardinality({m \in Msgs : obs.outcome[m] \in {"sendFailed", "ackFailed"}})

\* checkEmails returns (it never rethrows) and the awaiting caller, start or
\* the timer callback, calls scheduleNextPoll.  o is the observer record.
EndCycle(fails, o) ==
    /\ pc' = "idle"
    /\ inFlight' = inFlight - 1
    /\ consecutiveErrors' = errorsAfterSession(consecutiveErrors, fails)
    /\ obs' = [o EXCEPT !.streak = IF o.session = "failed"
                                    THEN Min(@ + 1, MaxStreak) ELSE 0]
    /\ startPc' = IF startPc = "initial" THEN "done" ELSE startPc
    /\ scheduleNextPoll(isRunning, consecutiveErrors')
    /\ UNCHANGED <<confVars, fatal, isRunning, stopPc>>

\* main: validateConfig throws with the list of missing settings and main
\* exits with status 1; or it returns, the bot is constructed, the signal
\* handlers are registered and start() runs up to the await of
\* testConnection.
Validate ==
    /\ Alive /\ startPc = "validate"
    /\ IF Len(missing(cfg)) > 0
       THEN /\ startPc' = "failed"
            /\ fatal' = [kind |-> "config", missing |-> missing(cfg)]
            /\ UNCHANGED obs
       ELSE /\ startPc' = "test"
            /\ obs' = [obs EXCEPT !.channel = TRUE]
            /\ UNCHANGED fatal
    /\ UNCHANGED <<confVars, isRunning, pollTimeout, pollDelay,
                   consecutiveErrors, stopPc, inFlight>>
    /\ UNCHANGED cycleVars

\* start: testConnection resolves.
StartTestOk ==
    /\ Alive /\ startPc = "test"
    /\ startPc' = "notify"
    /\ UNCHANGED <<confVars, fatal, isRunning, pollTimeout, pollDelay,
                   consecutiveErrors, stopPc, inFlight, obs>>
    /\ UNCHANGED cycleVars

\* start: testConnection rejects, start throws, main exits with status 1.
StartTestFail ==
    /\ Alive /\ startPc = "test"
    /\ startPc' = "failed"
    /\ fatal' = [kind |-> "start", missing |-> << >>]
    /\ UNCHANGED <<confVars, isRunning, pollTimeout, pollDelay,
                   consecutiveErrors, stopPc, inFlight, obs>>
    /\ UNCHANGED cycleVars

\* start: the startup notification is sent or its failure is swallowed; then
\* isRunning = true and the initial checkEmails is entered.
StartNotified ==
    /\ Alive /\ startPc = "notify"
    /\ startPc' = "initial"
    /\ isRunning' = TRUE
    /\ BeginCycle
    /\ IF startAwaitsCycle
       THEN UNCHANGED <<pollTimeout, pollDelay>>
       ELSE scheduleNextPoll(TRUE, consecutiveErrors)
    /\ UNCHANGED <<confVars, fatal, consecutiveErrors, stopPc>>

\* The poll timer expires: its callback enters checkEmails.
TimerFire ==
    /\ Alive /\ pollTimeout = "pending"
    /\ pollTimeout' = "fired"
    /\ BeginCycle
    /\ UNCHANGED <<confVars, fatal, isRunning, pollDelay, consecutiveErrors,
                   startPc, stopPc>>

\* A signal arrives (a first one, or another one while the shutdown
\* notification is pending): stop() up to the await of that notification.
StopCall ==
    /\ Alive /\ stopPc \in {"idle", "notify"}
    /\ startPc # "validate"
    /\ stopPc' = "notify"
    /\ isRunning' = FALSE
    /\ pollTimeout' = "null"
    /\ pollDelay' = 0
    /\ obs' = [obs EXCEPT !.channel = TRUE]
    /\ UNCHANGED <<confVars, fatal, consecutiveErrors, startPc, inFlight>>
    /\ UNCHANGED cycleVars

\* stop(): the shutdown notification settles, then process.exit(0).
StopExit ==
    /\ Alive /\ stopPc = "notify"
    /\ stopPc' = "exited"
    /\ UNCHANGED <<confVars, fatal, isRunning, pollTimeout, pollDelay,
                   consecutiveErrors, startPc, inFlight, obs>>
    /\ UNCHANGED cycleVars

(* --------------------- fetchUnreadEmails ------------------------------- *)
SessionPcs == {"openInbox", "search", "fetch", "fetchDelay", "ackOpenInbox",
               "ackMark"}

schedVars == <<confVars, fatal, isRunning, pollTimeout, pollDelay,
               consecutiveErrors, startPc, stopPc, inFlight>>

\* The server or the network ends the open connection: this.imap emits
\* 'end' (logged by the listener connect registered) while the cycle is
\* suspended in an operation of the session.
ConnectionEnds ==
    /\ Alive /\ pc \in SessionPcs
    /\ sessions > 0
    /\ sessions' = sessions - 1
    /\ endPending' = FALSE
    /\ UNCHANGED <<pc, store, unreadSeqNos, idx, emails, eidx, aidx, obs>>
    /\ UNCHANGED schedVars

ConnectOk ==
    /\ Alive /\ pc = "connect"
    /\ pc' = "openInbox"
    /\ sessions' = sessions + 1
    /\ endPending' = TRUE
    /\ UNCHANGED <<store, unreadSeqNos, idx, emails, eidx, aidx, obs>>
    /\ UNCHANGED schedVars

\* connect rejects: catch, then finally disconnect.  this.imap is the new
\* connection object: it emits 'end' after end() when the server refused the
\* login on an open socket, and never when the socket was never connected.
ConnectFail ==
    /\ Alive /\ pc = "connect"
    /\ pc' = "disconnect"
    /\ obs' = [obs EXCEPT !.session = "failed"]
    /\ endPending' \in BOOLEAN
    /\ UNCHANGED <<store, sessions, unreadSeqNos, idx, emails, eidx, aidx>>
    /\ UNCHANGED schedVars

OpenInboxOk ==
    /\ Alive /\ pc = "openInbox"
    /\ sessions > 0
    /\ pc' = "search"
    /\ UNCHANGED <<store, conn, unreadSeqNos, idx, emails, eidx, aidx, obs>>
    /\ UNCHANGED schedVars

OpenInboxFail ==
    /\ Alive /\ pc = "openInbox"
    /\ pc' = "disconnect"
    /\ obs' = [obs EXCEPT !.session = "failed"]
    /\ UNCHANGED <<store, conn, unreadSeqNos, idx, emails, eidx, aidx>>
    /\ UNCHANGED schedVars

\* searchUnread resolves; an empty result returns through finally.
SearchOk ==
    /\ Alive /\ pc = "search"
    /\ sessions > 0
    /\ unreadSeqNos' = searchUnread(seen)
    /\ IF Len(unreadSeqNos') = 0
       THEN /\ pc' = "disconnect" /\ idx' = 0
            /\ obs' = [obs EXCEPT !.session = "ok"]
       ELSE /\ pc' = "fetch" /\ idx' = 1
            /\ obs' = [obs EXCEPT !.session = "ok",
                                   !.fetched = Append(@, unreadSeqNos'[1])]
    /\ UNCHANGED <<store, conn, emails, eidx, aidx>>
    /\ UNCHANGED schedVars

SearchFail ==
    /\ Alive /\ pc = "search"
    /\ pc' = "disconnect"
    /\ obs' = [obs EXCEPT !.session = "failed"]
    /\ UNCHANGED <<store, conn, unreadSeqNos, idx, emails, eidx, aidx>>
    /\ UNCHANGED schedVars

\* fetchEmail resolves with the parsed email of the message the store
\* returned; the attributes event may or may not have arrived before 'end'.
FetchOk ==
    /\ Alive /\ pc = "fetch"
    /\ sessions > 0
    /\ fetchTarget(unreadSeqNos[idx]) # 0
    /\ \E attrs \in BOOLEAN :
          LET h == unreadSeqNos[idx]
              t == fetchTarget(h)
          IN emails' = pushEmail(emails, [uid |-> stampUid(h, attrs, t),
                                          seqno |-> SeqNoOf(t),
                                          msg |-> t,
                                          attrs |-> attrs])
    /\ pc' = "fetchDelay"
    /\ UNCHANGED <<store, conn, unreadSeqNos, idx, eidx, aidx, obs>>
    /\ UNCHANGED schedVars

\* fetchEmail rejects (not found, no body, fetch error, parse error).
FetchFail ==
    /\ Alive /\ pc = "fetch"
    /\ pc' = OnFetchError
    /\ obs' = [obs EXCEPT !.outcome[unreadSeqNos[idx]] = "fetchFailed"]
    /\ UNCHANGED <<store, conn, unreadSeqNos, idx, emails, eidx, aidx>>
    /\ UNCHANGED schedVars

\* The 100 ms pause after each fetch.
FetchDelay ==
    /\ Alive /\ pc = "fetchDelay"
    /\ IF idx < Len(unreadSeqNos)
       THEN /\ pc' = "fetch" /\ idx' = idx + 1
            /\ obs' = [obs EXCEPT !.fetched = Append(@, unreadSeqNos[idx + 1])]
       ELSE /\ pc' = "disconnect" /\ idx' = 0
            /\ UNCHANGED obs
    /\ UNCHANGED <<store, conn, unreadSeqNos, emails, eidx, aidx>>
    /\ UNCHANGED schedVars

\* finally: disconnect resolves on 'end'; fetchUnreadEmails returns emails
\* and checkEmails either returns (no emails) or enters processEmail and
\* sendEmail for the first email, up to the await of the primary sendMessage.
Disconnect ==
    /\ Alive /\ pc = "disconnect"
    /\ endPending
    /\ sessions' = IF sessions > 0 THEN sessions - 1 ELSE 0
    /\ endPending' = FALSE
    /\ IF Len(emails) = 0
       THEN /\ EndCycle(0, [obs EXCEPT !.listCloses = @ + 1])
            /\ eidx' = 0
       ELSE /\ pc' = "sendMain"
            /\ eidx' = 1
            /\ obs' = [obs EXCEPT !.listCloses = @ + 1,
                                   !.started = Append(@, emails[1].msg),
                                   !.log = << >>]
            /\ UNCHANGED schedVars
    /\ UNCHANGED <<store, unreadSeqNos, idx, emails, aidx>>

(* ------------------- processEmail / sendEmail -------------------------- *)
cur == emails[eidx].msg

\* The observer record o after the attachment loop of the current email has
\* run from attachment k to its next await.
EnterAtt(o, k) ==
    LET n == NextAtt(cur, k) IN
    IF n.pc = "ackConnect"
    THEN [o EXCEPT !.ackInvoked = @ \cup {cur}, !.ackOpens = @ + 1]
    ELSE [o EXCEPT !.log = Append(@, <<IF n.pc = "sendDocument"
                                       THEN "doc" ELSE "over", n.aidx>>)]

\* The attachment loop resumes at attachment k of the current email.
ResumeAtt(k) ==
    /\ pc' = NextAtt(cur, k).pc
    /\ aidx' = NextAtt(cur, k).aidx
    /\ obs' = EnterAtt(obs, k)

\* sendEmail throws: processEmail returns false, or (never in this code)
\* goes on to markEmailAsRead.
SendThrows ==
    /\ pc' = OnSendError
    /\ aidx' = 0
    /\ obs' = IF OnSendError = "ackConnect"
              THEN [obs EXCEPT !.outcome[cur] = "sendFailed",
                               !.ackInvoked = @ \cup {cur}, !.ackOpens = @ + 1]
              ELSE [obs EXCEPT !.outcome[cur] = "sendFailed"]

\* The primary text notification is sent.
SendMainOk ==
    /\ Alive /\ pc = "sendMain"
    /\ pc' = NextAtt(cur, 1).pc
    /\ aidx' = NextAtt(cur, 1).aidx
    /\ obs' = EnterAtt([obs EXCEPT !.mainOk = @ \cup {cur}], 1)
    /\ UNCHANGED <<store, conn, unreadSeqNos, idx, emails, eidx>>
    /\ UNCHANGED schedVars

SendMainFail ==
    /\ Alive /\ pc = "sendMain"
    /\ SendThrows
    /\ UNCHANGED <<store, conn, unreadSeqNos, idx, emails, eidx>>
    /\ UNCHANGED schedVars

\* The oversize warning is sent; continue skips the 500 ms pause.
OversizeWarnOk ==
    /\ Alive /\ pc = "sendOversizeWarn"
    /\ ResumeAtt(aidx + 1)
    /\ UNCHANGED <<store, conn, unreadSeqNos, idx, emails, eidx>>
    /\ UNCHANGED schedVars

\* The oversize warning is awaited outside any try: its rejection leaves
\* sendEmail.
OversizeWarnFail ==
    /\ Alive /\ pc = "sendOversizeWarn"
    /\ SendThrows
    /\ UNCHANGED <<store, conn, unreadSeqNos, idx, emails, eidx>>
    /\ UNCHANGED schedVars

SendDocumentOk ==
    /\ Alive /\ pc = "sendDocument"
    /\ pc' = "attDelay"
    /\ UNCHANGED <<store, conn, unreadSeqNos, idx, emails, eidx, aidx, obs>>
    /\ UNCHANGED schedVars

\* sendDocument rejects: caught, the failure warning is attempted.
SendDocumentFail ==
    /\ Alive /\ pc = "sendDocument"
    /\ pc' = "sendFailWarn"
    /\ obs' = [obs EXCEPT !.log = Append(@, <<"warn", aidx>>)]
    /\ UNCHANGED <<store, conn, unreadSeqNos, idx, emails, eidx, aidx>>
    /\ UNCHANGED schedVars

\* The failure warning settles; its own rejection is ignored.
FailWarnSettled ==
    /\ Alive /\ pc = "sendFailWarn"
    /\ pc' = "attDelay"
    /\ UNCHANGED <<store, conn, unreadSeqNos, idx, emails, eidx, aidx, obs>>
    /\ UNCHANGED schedVars

\* The 500 ms pause after an attachment.
AttDelay ==
    /\ Alive /\ pc = "attDelay"
    /\ ResumeAtt(aidx + 1)
    /\ UNCHANGED <<store, conn, unreadSeqNos, idx, emails, eidx>>
    /\ UNCHANGED schedVars

(* ------------------------ markEmailAsRead ------------------------------ *)
AckThrows ==
    /\ pc' = OnAckError
    /\ obs' = [obs EXCEPT !.outcome[cur] =
                              IF @ = "sendFailed" THEN @ ELSE "ackFailed"]

AckConnectOk ==
    /\ Alive /\ pc = "ackConnect"
    /\ pc' = "ackOpenInbox"
    /\ sessions' = sessions + 1
    /\ endPending' = TRUE
    /\ UNCHANGED <<store, unreadSeqNos, idx, emails, eidx, aidx, obs>>
    /\ UNCHANGED schedVars

AckConnectFail ==
    /\ Alive /\ pc = "ackConnect"
    /\ AckThrows
    /\ endPending' \in BOOLEAN
    /\ UNCHANGED <<store, sessions, unreadSeqNos, idx, emails, eidx, aidx>>
    /\ UNCHANGED schedVars

AckOpenInboxOk ==
    /\ Alive /\ pc = "ackOpenInbox"
    /\ sessions > 0
    /\ pc' = "ackMark"
    /\ UNCHANGED <<store, conn, unreadSeqNos, idx, emails, eidx, aidx, obs>>
    /\ UNCHANGED schedVars

AckOpenInboxFail ==
    /\ Alive /\ pc = "ackOpenInbox"
    /\ AckThrows
    /\ UNCHANGED <<store, conn, unreadSeqNos, idx, emails, eidx, aidx>>
    /\ UNCHANGED schedVars

\* markAsRead(email.uid) resolves: the \Seen flag is set.
AckMarkOk ==
    /\ Alive /\ pc = "ackMark"
    /\ sessions > 0
    /\ seen' = addFlags(seen, ackKey(emails[eidx]))
    /\ pc' = "ackDisconnect"
    /\ obs' = [obs EXCEPT !.outcome[cur] = IF @ = "sendFailed" THEN @ ELSE "done",
                          !.ackedOk = IF obs.outcome[cur] = "sendFailed"
                                      THEN @ ELSE @ \cup {cur}]
    /\ UNCHANGED <<box, conn, unreadSeqNos, idx, emails, eidx, aidx>>
    /\ UNCHANGED schedVars

AckMarkFail ==
    /\ Alive /\ pc = "ackMark"
    /\ AckThrows
    /\ UNCHANGED <<store, conn, unreadSeqNos, idx, emails, eidx, aidx>>
    /\ UNCHANGED schedVars

\* finally: disconnect resolves; processEmail returns and checkEmails pauses.
AckDisconnect ==
    /\ Alive /\ pc = "ackDisconnect"
    /\ endPending
    /\ sessions' = IF sessions > 0 THEN sessions - 1 ELSE 0
    /\ endPending' = FALSE
    /\ pc' = "itemDelay"
    /\ obs' = [obs EXCEPT !.ackCloses = @ + 1]
    /\ UNCHANGED <<store, unreadSeqNos, idx, emails, eidx, aidx>>
    /\ UNCHANGED schedVars

\* The 1 s pause after an email: the next email, or checkEmails returns.
ItemDelay ==
    /\ Alive /\ pc = "itemDelay"
    /\ IF eidx < Len(emails)
       THEN /\ pc' = "sendMain"
            /\ eidx' = eidx + 1
            /\ obs' = [obs EXCEPT !.started = Append(@, emails[eidx + 1].msg),
                                   !.log = << >>]
            /\ UNCHANGED schedVars
       ELSE /\ EndCycle(failCount, obs)
            /\ eidx' = 0
    /\ UNCHANGED <<store, conn, unreadSeqNos, idx, emails, aidx>>

Next ==
    \/ Validate \/ StartTestOk \/ StartTestFail \/ StartNotified
    \/ TimerFire \/ StopCall \/ StopExit
    \/ ConnectionEnds \/ ConnectOk \/ ConnectFail \/ OpenInboxOk \/ OpenInboxFail
    \/ SearchOk \/ SearchFail \/ FetchOk \/ FetchFail \/ FetchDelay
    \/ Disconnect
    \/ SendMainOk \/ SendMainFail \/ OversizeWarnOk \/ OversizeWarnFail
    \/ SendDocumentOk \/ SendDocumentFail \/ FailWarnSettled \/ AttDelay
    \/ AckConnectOk \/ AckConnectFail \/ AckOpenInboxOk \/ AckOpenInboxFail
    \/ AckMarkOk \/ AckMarkFail \/ AckDisconnect \/ ItemDelay

Spec == Init /\ [][Next]_vars

TypeOK ==
    /\ pc \in {"idle", "connect", "openInbox", "search", "fetch", "fetchDelay",
               "disconnect", "sendMain", "sendOversizeWarn", "sendDocument",
               "sendFailWarn", "attDelay", "ackConnect", "ackOpenInbox",
               "ackMark", "ackDisconnect", "itemDelay"}
    /\ startPc \in {"validate", "test", "notify", "initial", "done", "failed"}
    /\ stopPc \in {"idle", "notify", "exited"}
    /\ pollTimeout \in {"null", "pending", "fired"}
    /\ isRunning \in BOOLEAN
    /\ seen \in [Msgs -> BOOLEAN]
    /\ consecutiveErrors \in Nat
    /\ inFlight \in Nat
    /\ sessions \in Nat

(* ------------- getNextPollInterval as a function of its inputs --------- *)
\* A running bot whose last cycle has returned, for every configured base
\* interval and every value of the failure counter.
InitPoll ==
    /\ InitCommon
    /\ box = [m \in Msgs |-> "present"]
    /\ pollInterval \in BaseSet
    /\ cfg = RequiredSet
    /\ consecutiveErrors \in 0..MaxErrors
    /\ isRunning = TRUE
    /\ startPc = "done"

SchedulePoll ==
    /\ pollTimeout = "null"
    /\ scheduleNextPoll(isRunning, consecutiveErrors)
    /\ UNCHANGED <<confVars, fatal, isRunning, consecutiveErrors, startPc,
                   stopPc, inFlight, obs>>
    /\ UNCHANGED cycleVars

NextPoll == SchedulePoll

SpecPoll == InitPoll /\ [][NextPoll]_vars

(* ------------------------------ claims --------------------------------- *)
DeliveryPcs == {"sendMain", "sendOversizeWarn", "sendDocument", "sendFailWarn",
                "attDelay"}
AckPcs == {"ackConnect", "ackOpenInbox", "ackMark", "ackDisconnect"}

\* Emails of this cycle for which sendEmail has returned true.
Delivered ==
    {m \in obs.mainOk : /\ obs.outcome[m] # "sendFailed"
                        /\ ~(pc \in DeliveryPcs /\ cur = m)}

\* C1: an item whose delivery (sendEmail) failed in a cycle has no
\* markEmailAsRead invoked for it in that cycle, keeps its seen flag unset,
\* and is contained in the unseen listing of the next cycle.
C1_FailedDeliveryNotAcked ==
    /\ \A m \in Msgs : obs.outcome[m] = "sendFailed"
                          => (m \notin obs.ackInvoked /\ ~seen[m])
    /\ obs.session = "ok" => obs.prevSendFailed \subseteq Range(unreadSeqNos)

C1_Witness ==
    /\ obs.session = "ok"
    /\ obs.prevSendFailed # {}
    /\ obs.prevSendFailed \subseteq Range(unreadSeqNos)

\* C2: an item that was delivered and acknowledged successfully in some cycle
\* is not returned by the unseen listing of any later cycle and is not
\* delivered again.
C2_AckedNeverListedAgain ==
    \A m \in obs.ackedOk :
        /\ seen[m]
        /\ (m \in Range(unreadSeqNos) \/ m \in obs.mainOk
            \/ (pc \in DeliveryPcs /\ cur = m)) => obs.outcome[m] = "done"

C2_Witness ==
    /\ obs.session = "ok"
    /\ pc \in DeliveryPcs
    /\ \E m \in obs.ackedOk : obs.outcome[m] = "none" /\ m \notin Range(unreadSeqNos)

\* C3: a cycle whose connect / selectInbox / listUnseen prefix failed ends
\* with the consecutive-failure counter one higher than it was.
C3_SessionFailureIncrements ==
    (pc = "idle" /\ obs.session = "failed")
        => consecutiveErrors = obs.errorsBefore + 1

ClaimedInterval(base, n) ==
    IF n = 0 THEN base ELSE Min(base * Pow2(n - 1), maxInterval)

\* C4: for every base interval and failure count n the scheduled delay is
\* base when n = 0 and min(base * 2^(n-1), 600000) when n >= 1.
C4_IntervalFormula ==
    pollTimeout = "pending"
        => pollDelay = ClaimedInterval(pollInterval, consecutiveErrors)

ClaimedSequence(k) ==
    CASE k = 0 -> 60000
      [] k = 1 -> 60000
      [] k = 2 -> 120000
      [] k = 3 -> 240000
      [] k = 4 -> 480000
      [] OTHER -> 600000

\* C5: with base 60000 the delay chosen after 1, 2, 3, 4 consecutive
\* session-level failures is 60000, 120000, 240000, 480000, after 5 or more
\* it is 600000, and after a successful cycle it is 60000.
C5_BackoffSequence ==
    pollTimeout = "pending" => pollDelay = ClaimedSequence(obs.streak)

\* C6: a cycle whose store session completed successfully leaves the
\* consecutive-failure counter at zero, whatever the item-level outcomes.
C6_SessionOkResets ==
    (pc = "idle" /\ obs.session = "ok") => consecutiveErrors = 0

C6_Witness ==
    /\ pc = "idle"
    /\ obs.session = "ok"
    /\ \E m \in Msgs : obs.outcome[m] \in {"sendFailed", "ackFailed"}

\* C7: at most one store session is open; the listing session of a cycle is
\* opened once and closed once, before the first delivery or acknowledgment;
\* an acknowledgment session is opened only after a successful delivery and
\* closed before the next item is processed.
C7_OneSession ==
    /\ sessions <= 1
    /\ pc \in DeliveryPcs \cup AckPcs \cup {"itemDelay"}
          => (obs.listOpens = 1 /\ obs.listCloses = 1)
    /\ (pc = "idle" /\ obs.session # "none")
          => (obs.listOpens = 1 /\ obs.listCloses = 1)
    /\ pc \in DeliveryPcs \cup {"itemDelay", "idle"}
          => (sessions = 0 /\ obs.ackCloses = obs.ackOpens)
    /\ pc \in AckPcs => (obs.ackOpens = obs.ackCloses + 1 /\ cur \in Delivered)
    /\ obs.ackOpens <= Cardinality(Delivered)

C7_Witness ==
    /\ pc = "ackMark"
    /\ sessions = 1
    /\ obs.listCloses = 1
    /\ obs.ackCloses = 1

\* C8: at most one checkEmails is in flight, and the poll timer is pending
\* only while none is.
C8_OneCycle ==
    /\ inFlight <= 1
    /\ pollTimeout = "pending" => inFlight = 0
    /\ pc = "idle" <=> inFlight = 0

C8_Witness ==
    /\ inFlight = 1
    /\ pollTimeout = "fired"
    /\ pc = "sendMain"

\* C9: once stop() has been called no new cycle begins and no poll timer is
\* or becomes armed.
C9_StopIsFinal ==
    stopPc # "idle" => (pollTimeout # "pending" /\ ~obs.afterStop)

\* C10: sendEmail succeeds exactly when the primary text notification was
\* sent, whatever fails among attachments and warning notifications.
C10_SuccessIffMainSent ==
    \A m \in Msgs :
        /\ obs.outcome[m] = "sendFailed" => m \notin obs.mainOk
        /\ m \in obs.ackInvoked => m \in obs.mainOk

\* C15: when a required setting is missing, validation fails before anything
\* else: the error lists every missing setting, and no store session is
\* opened and no channel call is made in that run.
C15_ValidationFailsFast ==
    cfg # RequiredSet =>
        /\ startPc \in {"validate", "failed"}
        /\ startPc = "failed" =>
              /\ fatal.kind = "config"
              /\ {fatal.missing[i] : i \in 1..Len(fatal.missing)} = RequiredSet \ cfg
              /\ Len(fatal.missing) = Cardinality(RequiredSet \ cfg)
        /\ pc = "idle" /\ inFlight = 0 /\ sessions = 0
        /\ obs.session = "none" /\ obs.listOpens = 0 /\ obs.ackOpens = 0
        /\ ~obs.channel

C15_Witness ==
    /\ startPc = "failed"
    /\ fatal.kind = "config"
    /\ Len(fatal.missing) = 3

(* ------------- observer views of the last sendEmail call --------------- *)
LastStarted == obs.started[Len(obs.started)]
LogIdx(kind) == {obs.log[i][2] : i \in {j \in 1..Len(obs.log) : obs.log[j][1] = kind}}
LogCount(kind, k) == Cardinality({i \in 1..Len(obs.log) : obs.log[i] = <<kind, k>>})
\* The attachment loop of the last sendEmail has got to attachment k.
Reached(k) ==
    \/ \E i \in 1..Len(obs.log) : obs.log[i][2] >= k
    \/ LastStarted \in obs.ackInvoked
PosIn(s, x) == IF \E i \in 1..Len(s) : s[i] = x
               THEN CHOOSE i \in 1..Len(s) : s[i] = x ELSE 0
Final == {"sendFailed", "ackFailed", "done"}

\* C11: a failed transmission of a present, within-limit attachment does not
\* stop the loop: the warning is attempted, every later attachment of the
\* message is processed in order and sendEmail reports success.
C11_FailedTransmissionIsolated ==
    Len(obs.started) > 0 =>
        LET m == LastStarted
            atts == AttachmentsOf(m)
            failed == LogIdx("warn")
        IN /\ failed \subseteq LogIdx("doc")
           /\ \A i, j \in 1..Len(obs.log) : i < j => obs.log[i][2] <= obs.log[j][2]
           /\ (pc \notin DeliveryPcs /\ failed # {}) =>
                 /\ obs.outcome[m] # "sendFailed"
                 /\ \A k \in failed : \A j \in (k + 1)..Len(atts) :
                       (atts[j].content \/ atts[j].size > maxAttachmentSize)
                          => j \in LogIdx("doc") \cup LogIdx("over")

\* C12: a fetch failure of a listed item is isolated: the item is not
\* delivered, not acknowledged, not fetched twice and stays unseen, and every
\* other listed item is still fetched and, when fetched, delivered.
C12_FetchFailureIsolated ==
    /\ \A i, j \in 1..Len(obs.fetched) : i < j => obs.fetched[i] # obs.fetched[j]
    /\ \A m \in Msgs : obs.outcome[m] = "fetchFailed" =>
          /\ m \notin Range(obs.started)
          /\ m \notin obs.mainOk
          /\ m \notin obs.ackInvoked
          /\ ~seen[m]
    /\ (obs.session = "ok" /\ pc \notin {"fetch", "fetchDelay"})
          => obs.fetched = unreadSeqNos
    /\ (obs.session = "ok" /\ pc = "idle")
          => \A m \in Range(unreadSeqNos) : obs.outcome[m] # "none"

C12_Witness ==
    /\ pc = "idle"
    /\ obs.outcome[1] = "fetchFailed"
    /\ obs.outcome[2] = "done"
    /\ seen[2] /\ ~seen[1]

\* C14: an attachment with content is transmitted when its size is at most
\* maxAttachmentSize; when its size is larger no transmission is attempted
\* and exactly one warning is sent for it.
C14_SizePolicy ==
    Len(obs.started) > 0 =>
        LET atts == AttachmentsOf(LastStarted)
        IN \A k \in 1..Len(atts) : atts[k].content =>
              /\ atts[k].size <= maxAttachmentSize =>
                    /\ LogCount("over", k) = 0
                    /\ Reached(k) => LogCount("doc", k) = 1
              /\ atts[k].size > maxAttachmentSize =>
                    /\ LogCount("doc", k) = 0
                    /\ LogCount("over", k) <= 1
                    /\ Reached(k) => LogCount("over", k) = 1

C14_Witness ==
    /\ pc \in AckPcs
    /\ AttachmentsOf(LastStarted)[1] = AttWithin
    /\ AttachmentsOf(LastStarted)[2] = AttOver
    /\ LogCount("doc", 1) = 1
    /\ LogCount("over", 2) = 1

\* C17: an attachment without content causes no notification and does not
\* abort the message, whatever its declared size.
C17_AbsentContentSilent ==
    Len(obs.started) > 0 =>
        LET atts == AttachmentsOf(LastStarted)
        IN /\ \A k \in 1..Len(atts) : ~atts[k].content =>
                 \A i \in 1..Len(obs.log) : obs.log[i][2] # k
           /\ (obs.outcome[LastStarted] = "sendFailed" /\ obs.log # << >>)
                 => atts[obs.log[Len(obs.log)][2]].content

\* C18: emails are delivered one after the other in listing order, each only
\* after the previous one's delivery and acknowledgment have finished, and the
\* attachments of an email are transmitted one after the other in order.
C18_Sequential ==
    /\ \A i, j \in 1..Len(obs.started) : i < j =>
          /\ PosIn(unreadSeqNos, obs.started[i]) > 0
          /\ PosIn(unreadSeqNos, obs.started[i]) < PosIn(unreadSeqNos, obs.started[j])
    /\ pc \in DeliveryPcs \cup AckPcs =>
          /\ cur = LastStarted
          /\ \A i \in 1..(Len(obs.started) - 1) : obs.outcome[obs.started[i]] \in Final
    /\ pc \in DeliveryPcs => (sessions = 0 /\ obs.ackOpens = obs.ackCloses)
    /\ \A i, j \in 1..Len(obs.log) : i < j =>
          /\ obs.log[i][2] <= obs.log[j][2]
          /\ obs.log[i][2] = obs.log[j][2] =>
                (j = i + 1 /\ obs.log[i][1] = "doc" /\ obs.log[j][1] = "warn")

C18_Witness ==
    /\ Len(obs.started) = 2
    /\ pc = "sendOversizeWarn"
    /\ Len(obs.log) = 2

(* ------------- a mailbox that changes while the bot runs --------------- *)
\* start() after testConnection has resolved, with a complete configuration
\* and no signal to come.  Uids are handed out in ascending order: the
\* messages still to arrive are the ones with the highest uids.
InitStore ==
    /\ pollTimeout = "null"
    /\ pollDelay = 0
    /\ stopPc = "idle"
    /\ inFlight = 0
    /\ pc = "idle"
    /\ seen = [m \in Msgs |-> FALSE]
    /\ sessions = 0
    /\ unreadSeqNos = << >>
    /\ idx = 0
    /\ emails = << >>
    /\ eidx = 0
    /\ aidx = 0
    /\ fatal = [kind |-> "none", missing |-> << >>]
    /\ endPending = FALSE
    /\ obs = [InitObs EXCEPT !.channel = TRUE]
    /\ \E n \in 1..NumMsgs :
          box = [m \in Msgs |-> IF m <= n THEN "present" ELSE "future"]
    /\ pollInterval = defaultPollInterval
    /\ cfg = RequiredSet
    /\ consecutiveErrors = 0
    /\ isRunning = FALSE
    /\ startPc = "notify"

\* The steps of a listing session between the listing and the last fetch.
FetchPcs == {"fetch", "fetchDelay"}

\* Another client deletes a message while the listing session fetches: every
\* later message moves up one position, its uid stays.
Expunge ==
    /\ Alive /\ pc \in FetchPcs
    /\ \E m \in Present : box' = [box EXCEPT ![m] = "expunged"]
    /\ UNCHANGED <<pc, seen, conn, unreadSeqNos, idx, emails, eidx, aidx, obs>>
    /\ UNCHANGED schedVars

\* A new message is appended to the mailbox under the next uid while the
\* listing session fetches.
Arrive ==
    /\ Alive /\ pc \in FetchPcs
    /\ \E m \in Msgs :
          /\ box[m] = "future"
          /\ \A x \in Msgs : x < m => box[x] # "future"
          /\ box' = [box EXCEPT ![m] = "present"]
    /\ UNCHANGED <<pc, seen, conn, unreadSeqNos, idx, emails, eidx, aidx, obs>>
    /\ UNCHANGED schedVars

NextStore ==
    \/ StartNotified \/ TimerFire
    \/ ConnectionEnds \/ ConnectOk \/ ConnectFail \/ OpenInboxOk \/ OpenInboxFail
    \/ SearchOk \/ SearchFail \/ FetchOk \/ FetchFail \/ FetchDelay
    \/ Disconnect
    \/ SendMainOk \/ SendMainFail \/ OversizeWarnOk \/ OversizeWarnFail
    \/ SendDocumentOk \/ SendDocumentFail \/ FailWarnSettled \/ AttDelay
    \/ AckConnectOk \/ AckConnectFail \/ AckOpenInboxOk \/ AckOpenInboxFail
    \/ AckMarkOk \/ AckMarkFail \/ AckDisconnect \/ ItemDelay
    \/ Expunge \/ Arrive

SpecStore == InitStore /\ [][NextStore]_vars

C13_DisconnectResolves ==
    (Alive /\ pc \in {"disconnect", "ackDisconnect"}) => endPending

(* ------------- the bot under a fair event loop ------------------------- *)
\* One pending step of the cycle: the settling of the call it awaits or the
\* expiry of the pause it sleeps in.
CycleStep ==
    \/ ConnectOk \/ ConnectFail \/ OpenInboxOk \/ OpenInboxFail
    \/ SearchOk \/ SearchFail \/ FetchOk \/ FetchFail \/ FetchDelay
    \/ Disconnect
    \/ SendMainOk \/ SendMainFail \/ OversizeWarnOk \/ OversizeWarnFail
    \/ SendDocumentOk \/ SendDocumentFail \/ FailWarnSettled \/ AttDelay
    \/ AckConnectOk \/ AckConnectFail \/ AckOpenInboxOk \/ AckOpenInboxFail
    \/ AckMarkOk \/ AckMarkFail \/ AckDisconnect \/ ItemDelay

\* The event loop runs every callback that is ready: a network call that can
\* settle does settle, a timer that is armed fires.  Signals and the end of a
\* connection are the environment's and are not forced.
Fairness ==
    /\ WF_vars(Validate)
    /\ WF_vars(StartTestOk \/ StartTestFail)
    /\ WF_vars(StartNotified)
    /\ WF_vars(TimerFire)
    /\ WF_vars(StopExit)
    /\ WF_vars(CycleStep)

SpecLive == Init /\ [][Next]_vars /\ Fairness

\* C19: an unseen message is never dropped while the bot runs: as long as it
\* is not acknowledged and no stop was requested, cycles keep being started
\* for it (from which, with calls that eventually succeed, its delivery and
\* acknowledgment follow).
C19_UnseenIsRetried ==
    \A m \in Msgs :
        []<>(seen[m] \/ ~Alive \/ stopPc # "idle" \/ pc = "connect")

====
